---- MODULE Spec2Model ----
(***************************************************************************)
(* Model of lib/dom/scripts/dartdomgenerator.py: the driver Generate that  *)
(* loads the IDL database, prunes, clones, filters and renames it, then    *)
(* builds and runs the generators of every requested system and finally    *)
(* flushes the MultiEmitter.                                               *)
(*                                                                         *)
(* One run of Generate is followed statement by statement (pc names the    *)
(* next statement).  Objects live in heaps (sequences); a reference is the *)
(* index of the object in its heap and 0 is an unbound local.  The         *)
(* collaborators that are not part of this file fail only where the        *)
(* specification's error taxonomy says they do: Load/LoadFromCache,        *)
(* RenameTypes (strict) and a generator run.  A Python exception is never  *)
(* caught in Generate, so it ends the run (pc = "failed").                 *)
(***************************************************************************)
EXTENDS Naturals, Sequences, FiniteSets

\* Longest list of systems handed to Generate.
MaxSystems == 2

\* The identifiers Generate dispatches on.
HtmlSystems == {"htmlfrog", "htmldartium"}

PlainSystems == {"dummy", "frog"}

\* The identifiers a caller may hand over: the four known ones, a misspelled
\* one, and the empty string.
SystemIds == HtmlSystems \cup PlainSystems \cup {"bogus", ""}

SystemLists == UNION {[1..n -> SystemIds] : n \in 0..MaxSystems}

VARIABLES
  system_names,           \* argument: the requested systems, in order
  use_database_cache,     \* argument
  pc,                     \* next statement of Generate
  error,                  \* the exception that ended the run, or NoError
  common_database,        \* passes applied to the base Model, in order
  webkit_database,        \* passes applied to the working Model (<<>>: unbound)
  emitters,               \* the MultiEmitter: [exists, pending, written, flushes]
  idx,                    \* position of system_name in system_names (0: none)
  system_name,            \* loop variable
  renamers,               \* number of HtmlRenamer objects created
  registries,             \* heap of TypeRegistry objects
  configs,                \* heap of GeneratorOptions objects
  generators,             \* heap of generator (system) objects
  renamer, type_registry, options, backend, html_system,
  interface_system, implementation_system,   \* locals of Generate
  running,                \* generators whose run is in progress
  log,                    \* the calls made so far, in order
  main_pc,                \* next statement of main ("none": main is not used)
  option_systems,         \* options.systems: the text of --systems
  option_cache,           \* options.use_database_cache
  systems,                \* local of main: options.systems.split(',')
  copies                  \* the copy steps GenerateSingleFile has made

vars == <<system_names, use_database_cache, pc, error, common_database,
          webkit_database, emitters, idx, system_name, renamers, registries,
          configs, generators, renamer, type_registry, options, backend,
          html_system, interface_system, implementation_system, running, log,
          main_pc, option_systems, option_cache, systems, copies>>

command == <<main_pc, option_systems, option_cache, systems, copies>>

data == <<common_database, webkit_database>>

heap == <<renamers, registries, configs, generators>>

locals == <<renamer, type_registry, options, backend, html_system,
            interface_system, implementation_system>>

args == <<system_names, use_database_cache>>

NoError == [type |-> "", msg |-> <<>>]

\* The state of Generate before its first statement.
GenerateEntry ==
  /\ error = NoError
  /\ common_database = <<>>
  /\ webkit_database = <<>>
  /\ emitters = [exists |-> FALSE, pending |-> <<>>, written |-> <<>>,
                 flushes |-> 0]
  /\ idx = 0
  /\ system_name = ""
  /\ renamers = 0
  /\ registries = <<>>
  /\ configs = <<>>
  /\ generators = <<>>
  /\ renamer = 0
  /\ type_registry = 0
  /\ options = 0
  /\ backend = 0
  /\ html_system = 0
  /\ interface_system = 0
  /\ implementation_system = 0
  /\ running = <<>>
  /\ log = <<>>

Event(op, sys) == [op |-> op, pos |-> idx, sys |-> sys]

Init ==
  /\ system_names \in SystemLists
  /\ use_database_cache \in BOOLEAN
  /\ pc = "LoadAuxiliary"
  /\ GenerateEntry
  /\ main_pc = "none"
  /\ option_systems = <<>>
  /\ option_cache = FALSE
  /\ systems = <<>>
  /\ copies = <<>>

\* An uncaught exception leaves Generate: the call stack unwinds.
Raise(type, msg) ==
  /\ pc' = "failed"
  /\ error' = [type |-> type, msg |-> msg]
  /\ running' = <<>>

\* generator = dartgenerator.DartGenerator(); generator.LoadAuxiliary(...)
LoadAuxiliary ==
  /\ pc = "LoadAuxiliary"
  /\ pc' = "Load"
  /\ log' = Append(log, Event("LoadAuxiliary", 0))
  /\ UNCHANGED <<command, args, error, data, emitters, idx, system_name, heap, locals,
                 running>>

\* The name of the loading call the cache flag selects.
LoadCall(cache) == IF cache THEN "LoadFromCache" ELSE "Load"

\* common_database = database.Database(database_dir); Load or LoadFromCache
Load ==
  /\ pc = "Load"
  /\ log' = Append(log, Event(LoadCall(use_database_cache), 0))
  /\ \/ /\ common_database' = <<LoadCall(use_database_cache)>>
        /\ pc' = "FilterMembersWithUnidentifiedTypes"
        /\ UNCHANGED <<error, running>>
     \/ /\ Raise("LoadError", <<>>)
        /\ UNCHANGED common_database
  /\ UNCHANGED <<command, args, webkit_database, emitters, idx, system_name, heap,
                 locals>>

\* Variant: the pruning pass is left out.
FilterMembersSkipped ==
  /\ pc = "FilterMembersWithUnidentifiedTypes"
  /\ pc' = "Clone"
  /\ UNCHANGED <<command, args, error, data, emitters, idx, system_name, heap, locals,
                 running, log>>

\* generator.FilterMembersWithUnidentifiedTypes(common_database)
FilterMembersWithUnidentifiedTypes ==
  /\ pc = "FilterMembersWithUnidentifiedTypes"
  /\ pc' = "Clone"
  /\ common_database' =
       Append(common_database, "FilterMembersWithUnidentifiedTypes")
  /\ log' = Append(log, Event("FilterMembersWithUnidentifiedTypes", 0))
  /\ UNCHANGED <<command, args, error, webkit_database, emitters, idx, system_name,
                 heap, locals, running>>

\* Variant: the base Model is filtered before it is cloned.
CloneAfterFilter ==
  /\ pc = "Clone"
  /\ pc' = "RenameTypes"
  /\ common_database' = Append(common_database, "FilterInterfaces")
  /\ webkit_database' =
       Append(Append(common_database, "FilterInterfaces"), "Clone")
  /\ log' = Append(Append(log, Event("FilterInterfaces", 0)),
                   Event("Clone", 0))
  /\ UNCHANGED <<command, args, error, emitters, idx, system_name, heap,
                 locals, running>>

\* webkit_database = common_database.Clone()
Clone ==
  /\ pc = "Clone"
  /\ pc' = "FilterInterfaces"
  /\ webkit_database' = Append(common_database, "Clone")
  /\ log' = Append(log, Event("Clone", 0))
  /\ UNCHANGED <<command, args, error, common_database, emitters, idx, system_name,
                 heap, locals, running>>

\* Variant: the filter is applied to the base Model.
FilterInterfacesOnBase ==
  /\ pc = "FilterInterfaces"
  /\ pc' = "RenameTypes"
  /\ common_database' = Append(common_database, "FilterInterfaces")
  /\ log' = Append(log, Event("FilterInterfaces", 0))
  /\ UNCHANGED <<command, args, error, webkit_database, emitters, idx,
                 system_name, heap, locals, running>>

\* generator.FilterInterfaces(database = webkit_database, ...)
FilterInterfaces ==
  /\ pc = "FilterInterfaces"
  /\ pc' = "RenameTypes"
  /\ webkit_database' = Append(webkit_database, "FilterInterfaces")
  /\ log' = Append(log, Event("FilterInterfaces", 0))
  /\ UNCHANGED <<command, args, error, common_database, emitters, idx, system_name,
                 heap, locals, running>>

\* Variant: a failure of the strict renaming is recorded but the run goes on.
RenameTypesLenient ==
  /\ pc = "RenameTypes"
  /\ log' = Append(log, Event("RenameTypes", 0))
  /\ pc' = "FixEventTargets"
  /\ \/ /\ webkit_database' = Append(webkit_database, "RenameTypes")
        /\ UNCHANGED error
     \/ /\ error' = [type |-> "StrictRenameError", msg |-> <<>>]
        /\ UNCHANGED webkit_database
  /\ UNCHANGED <<command, args, common_database, emitters, idx, system_name, heap,
                 locals, running>>

\* generator.RenameTypes(webkit_database, _webkit_renames, True)
RenameTypes ==
  /\ pc = "RenameTypes"
  /\ log' = Append(log, Event("RenameTypes", 0))
  /\ \/ /\ webkit_database' = Append(webkit_database, "RenameTypes")
        /\ pc' = "FixEventTargets"
        /\ UNCHANGED <<error, running>>
     \/ /\ Raise("StrictRenameError", <<>>)
        /\ UNCHANGED webkit_database
  /\ UNCHANGED <<command, args, common_database, emitters, idx, system_name, heap,
                 locals>>

\* generator.FixEventTargets(webkit_database)
FixEventTargets ==
  /\ pc = "FixEventTargets"
  /\ pc' = "MultiEmitter"
  /\ webkit_database' = Append(webkit_database, "FixEventTargets")
  /\ log' = Append(log, Event("FixEventTargets", 0))
  /\ UNCHANGED <<command, args, error, common_database, emitters, idx, system_name,
                 heap, locals, running>>

\* emitters = multiemitter.MultiEmitter()
MultiEmitter ==
  /\ pc = "MultiEmitter"
  /\ pc' = "for"
  /\ emitters' = [exists |-> TRUE, pending |-> <<>>, written |-> <<>>,
                  flushes |-> 0]
  /\ log' = Append(log, Event("MultiEmitter", 0))
  /\ UNCHANGED <<command, args, error, data, idx, system_name, heap, locals, running>>

\* for system_name in system_names: / if system_name in ['htmlfrog', ...]
ForBranch(name) == IF name \in HtmlSystems THEN "HtmlRenamer" ELSE "TypeRegistry"

\* Variant: the list is walked from its end.
ForNextReversed ==
  /\ pc = "for"
  /\ IF idx < Len(system_names)
       THEN /\ idx' = idx + 1
            /\ system_name' = system_names[Len(system_names) - idx]
            /\ pc' = ForBranch(system_names[Len(system_names) - idx])
       ELSE /\ pc' = "Flush"
            /\ UNCHANGED <<idx, system_name>>
  /\ UNCHANGED <<command, args, error, data, emitters, heap, locals, running, log>>

\* Variant: the whole list is validated when the loop is entered.
ForNextValidated ==
  /\ pc = "for"
  /\ IF idx = 0 /\ \E k \in 1..Len(system_names) :
                     system_names[k] \notin HtmlSystems \cup PlainSystems
       THEN LET k == CHOOSE k \in 1..Len(system_names) :
                       system_names[k] \notin HtmlSystems \cup PlainSystems
            IN  /\ idx' = k
                /\ system_name' = system_names[k]
                /\ pc' = "raise"
       ELSE IF idx < Len(system_names)
         THEN /\ idx' = idx + 1
              /\ system_name' = system_names[idx + 1]
              /\ pc' = ForBranch(system_names[idx + 1])
         ELSE /\ pc' = "Flush"
              /\ UNCHANGED <<idx, system_name>>
  /\ UNCHANGED <<command, args, error, data, emitters, heap, locals, running,
                 log>>

ForNext ==
  /\ pc = "for"
  /\ IF idx < Len(system_names)
       THEN /\ idx' = idx + 1
            /\ system_name' = system_names[idx + 1]
            /\ pc' = ForBranch(system_names[idx + 1])
       ELSE /\ pc' = "Flush"
            /\ UNCHANGED <<idx, system_name>>
  /\ UNCHANGED <<command, args, error, data, emitters, heap, locals, running, log>>

\* Variant: the options are bound to the base Model.
CreateGeneratorOptionsOnBase(template_paths, conditions, registry, output_dir, ren) ==
  [template_loader |-> [template_paths |-> template_paths,
                        conditions |-> conditions],
   database |-> "common_database",
   emitters |-> "emitters",
   type_registry |-> registry,
   renamer |-> ren,
   output_dir |-> output_dir,
   pos |-> idx]

\* def CreateGeneratorOptions(template_paths, conditions, type_registry,
\*                            output_dir, renamer=None)
\* The closure binds webkit_database and emitters of the enclosing run.
CreateGeneratorOptions(template_paths, conditions, registry, output_dir, ren) ==
  [template_loader |-> [template_paths |-> template_paths,
                        conditions |-> conditions],
   database |-> "webkit_database",
   emitters |-> "emitters",
   type_registry |-> registry,
   renamer |-> ren,
   output_dir |-> output_dir,
   pos |-> idx]

\* TypeRegistry(database, renamer=None)
TypeRegistry(database, ren) ==
  [database |-> database, renamer |-> ren, pos |-> idx]

\* A generator object: its class, its options, the generator it wraps and the
\* back-reference _interface_system (0: not set).
System(cls, opts, wrapped) ==
  [cls |-> cls, options |-> opts, backend |-> wrapped,
   interface_system |-> 0, pos |-> idx]

\* renamer = HtmlRenamer(webkit_database)
NewHtmlRenamer ==
  /\ pc = "HtmlRenamer"
  /\ pc' = "HtmlTypeRegistry"
  /\ renamers' = renamers + 1
  /\ renamer' = renamers + 1
  /\ UNCHANGED <<command, args, error, data, emitters, idx, system_name, registries,
                 configs, generators, type_registry, options, backend,
                 html_system, interface_system, implementation_system,
                 running, log>>

\* type_registry = TypeRegistry(webkit_database, renamer)
NewHtmlTypeRegistry ==
  /\ pc = "HtmlTypeRegistry"
  /\ pc' = IF system_name = "htmlfrog" THEN "HtmlFrogSystem"
                                        ELSE "NativeImplementationSystem"
  /\ registries' = Append(registries, TypeRegistry("webkit_database", renamer))
  /\ type_registry' = Len(registries) + 1
  /\ UNCHANGED <<command, args, error, data, emitters, idx, system_name, renamers,
                 configs, generators, renamer, options, backend, html_system,
                 interface_system, implementation_system, running, log>>

\* options = CreateGeneratorOptions(['html/frog', ...]);
\* backend = HtmlFrogSystem(options)
NewHtmlFrogSystem ==
  /\ pc = "HtmlFrogSystem"
  /\ pc' = "HtmlInterfacesSystem"
  /\ configs' = Append(configs, CreateGeneratorOptions(
         <<"html/frog", "html/impl", "html", "">>,
         {<<"DARTIUM", FALSE>>, <<"FROG", TRUE>>},
         type_registry, "html_output_dir", renamer))
  /\ options' = Len(configs) + 1
  /\ generators' = Append(generators,
                          System("HtmlFrogSystem", Len(configs) + 1, 0))
  /\ backend' = Len(generators) + 1
  /\ UNCHANGED <<command, args, error, data, emitters, idx, system_name, renamers,
                 registries, renamer, type_registry, html_system,
                 interface_system, implementation_system, running, log>>

\* options = CreateGeneratorOptions(['dom/native', ...]);
\* backend = NativeImplementationSystem(options, auxiliary_dir)
NewNativeImplementationSystem ==
  /\ pc = "NativeImplementationSystem"
  /\ pc' = "HtmlInterfacesSystem"
  /\ configs' = Append(configs, CreateGeneratorOptions(
         <<"dom/native", "html/dartium", "html/impl", "">>,
         {<<"DARTIUM", TRUE>>, <<"FROG", FALSE>>},
         type_registry, "html_output_dir", renamer))
  /\ options' = Len(configs) + 1
  /\ generators' = Append(generators,
         System("NativeImplementationSystem", Len(configs) + 1, 0))
  /\ backend' = Len(generators) + 1
  /\ UNCHANGED <<command, args, error, data, emitters, idx, system_name, renamers,
                 registries, renamer, type_registry, html_system,
                 interface_system, implementation_system, running, log>>

\* Variant: the interfaces generator is built without the implementation
\* generator.
NewHtmlInterfacesSystemAlone ==
  /\ pc = "HtmlInterfacesSystem"
  /\ pc' = "Generate(html_system)"
  /\ configs' = Append(configs, CreateGeneratorOptions(
         <<"html/interface", "html/impl", "html", "">>, {},
         type_registry, "html_output_dir", renamer))
  /\ options' = Len(configs) + 1
  /\ generators' = Append(generators,
         System("HtmlInterfacesSystem", Len(configs) + 1, 0))
  /\ html_system' = Len(generators) + 1
  /\ UNCHANGED <<command, args, error, data, emitters, idx, system_name, renamers,
                 registries, renamer, type_registry, backend,
                 interface_system, implementation_system, running, log>>

\* options = CreateGeneratorOptions(['html/interface', ...]);
\* html_system = HtmlInterfacesSystem(options, backend)
NewHtmlInterfacesSystem ==
  /\ pc = "HtmlInterfacesSystem"
  /\ pc' = "Generate(html_system)"
  /\ configs' = Append(configs, CreateGeneratorOptions(
         <<"html/interface", "html/impl", "html", "">>, {},
         type_registry, "html_output_dir", renamer))
  /\ options' = Len(configs) + 1
  /\ generators' = Append(generators,
         System("HtmlInterfacesSystem", Len(configs) + 1, backend))
  /\ html_system' = Len(generators) + 1
  /\ UNCHANGED <<command, args, error, data, emitters, idx, system_name, renamers,
                 registries, renamer, type_registry, backend,
                 interface_system, implementation_system, running, log>>

\* Variant: the identifier is checked before anything is built for it.
NewTypeRegistryChecked ==
  /\ pc = "TypeRegistry"
  /\ IF system_name \in PlainSystems
       THEN /\ pc' = "InterfacesSystem"
            /\ registries' =
                 Append(registries, TypeRegistry("webkit_database", 0))
            /\ type_registry' = Len(registries) + 1
       ELSE /\ pc' = "raise"
            /\ UNCHANGED <<registries, type_registry>>
  /\ UNCHANGED <<command, args, error, data, emitters, idx, system_name, renamers,
                 configs, generators, renamer, options, backend, html_system,
                 interface_system, implementation_system, running, log>>

\* Variant: a Type Registry built earlier in the run is used again.
NewTypeRegistryReused ==
  /\ pc = "TypeRegistry"
  /\ pc' = "InterfacesSystem"
  /\ IF registries = <<>>
       THEN /\ registries' =
                 Append(registries, TypeRegistry("webkit_database", 0))
            /\ type_registry' = Len(registries) + 1
       ELSE /\ type_registry' = Len(registries)
            /\ UNCHANGED registries
  /\ UNCHANGED <<command, args, error, data, emitters, idx, system_name,
                 renamers, configs, generators, renamer, options, backend,
                 html_system, interface_system, implementation_system,
                 running, log>>

\* type_registry = TypeRegistry(webkit_database)
NewTypeRegistry ==
  /\ pc = "TypeRegistry"
  /\ pc' = "InterfacesSystem"
  /\ registries' = Append(registries, TypeRegistry("webkit_database", 0))
  /\ type_registry' = Len(registries) + 1
  /\ UNCHANGED <<command, args, error, data, emitters, idx, system_name, renamers,
                 configs, generators, renamer, options, backend, html_system,
                 interface_system, implementation_system, running, log>>

\* if system_name == 'dummy': / elif system_name == 'frog': / else:
ImplementationBranch(name) ==
  IF name = "dummy" THEN "DummyImplementationSystem"
  ELSE IF name = "frog" THEN "FrogSystem"
  ELSE "raise"

\* options = CreateGeneratorOptions(['dom/interface', 'dom', ''], ...);
\* interface_system = InterfacesSystem(options)
NewInterfacesSystem ==
  /\ pc = "InterfacesSystem"
  /\ pc' = ImplementationBranch(system_name)
  /\ configs' = Append(configs, CreateGeneratorOptions(
         <<"dom/interface", "dom", "">>, {},
         type_registry, "dom_output_dir", 0))
  /\ options' = Len(configs) + 1
  /\ generators' = Append(generators,
                          System("InterfacesSystem", Len(configs) + 1, 0))
  /\ interface_system' = Len(generators) + 1
  /\ UNCHANGED <<command, args, error, data, emitters, idx, system_name, renamers,
                 registries, renamer, type_registry, backend, html_system,
                 implementation_system, running, log>>

\* Variant: the implementation generator gets the options of the interfaces
\* generator.
NewDummyImplementationSystemSameOptions ==
  /\ pc = "DummyImplementationSystem"
  /\ pc' = "_interface_system"
  /\ generators' = Append(generators,
         System("DummyImplementationSystem", options, 0))
  /\ implementation_system' = Len(generators) + 1
  /\ UNCHANGED <<command, args, error, data, emitters, idx, system_name,
                 renamers, registries, configs, renamer, type_registry,
                 options, backend, html_system, interface_system, running,
                 log>>

\* options = CreateGeneratorOptions(['dom/dummy', 'dom', ''], ...);
\* implementation_system = dartgenerator.DummyImplementationSystem(options)
NewDummyImplementationSystem ==
  /\ pc = "DummyImplementationSystem"
  /\ pc' = "_interface_system"
  /\ configs' = Append(configs, CreateGeneratorOptions(
         <<"dom/dummy", "dom", "">>, {},
         type_registry, "dom_output_dir", 0))
  /\ options' = Len(configs) + 1
  /\ generators' = Append(generators,
         System("DummyImplementationSystem", Len(configs) + 1, 0))
  /\ implementation_system' = Len(generators) + 1
  /\ UNCHANGED <<command, args, error, data, emitters, idx, system_name, renamers,
                 registries, renamer, type_registry, backend, html_system,
                 interface_system, running, log>>

\* options = CreateGeneratorOptions(['dom/frog', 'dom', ''], ...);
\* implementation_system = FrogSystem(options)
NewFrogSystem ==
  /\ pc = "FrogSystem"
  /\ pc' = "_interface_system"
  /\ configs' = Append(configs, CreateGeneratorOptions(
         <<"dom/frog", "dom", "">>, {},
         type_registry, "dom_output_dir", 0))
  /\ options' = Len(configs) + 1
  /\ generators' = Append(generators,
                          System("FrogSystem", Len(configs) + 1, 0))
  /\ implementation_system' = Len(generators) + 1
  /\ UNCHANGED <<command, args, error, data, emitters, idx, system_name, renamers,
                 registries, renamer, type_registry, backend, html_system,
                 interface_system, running, log>>

\* 'Unsupported system_name %s' % system_name
UnsupportedMessage(name) == <<"Unsupported system_name ", name>>

\* Variant: the unknown identifier is skipped and the loop goes on.
SkipUnsupported ==
  /\ pc = "raise"
  /\ pc' = "for"
  /\ log' = Append(log, Event("skip", 0))
  /\ UNCHANGED <<command, args, error, data, emitters, idx, system_name, heap, locals,
                 running>>

\* Variant: the buffered output is flushed on the way out of the failing run.
RaiseUnsupportedFlushing ==
  /\ pc = "raise"
  /\ Raise("Exception", UnsupportedMessage(system_name))
  /\ emitters' = [emitters EXCEPT !.written = @ \o emitters.pending,
                                  !.pending = <<>>,
                                  !.flushes = @ + 1]
  /\ log' = Append(log, Event("raise", 0))
  /\ UNCHANGED <<command, args, data, idx, system_name, heap, locals>>

\* raise Exception('Unsupported system_name %s' % system_name)
RaiseUnsupported ==
  /\ pc = "raise"
  /\ Raise("Exception", UnsupportedMessage(system_name))
  /\ log' = Append(log, Event("raise", 0))
  /\ UNCHANGED <<command, args, data, emitters, idx, system_name, heap, locals>>

\* Variant: the back-reference is not set.
SetInterfaceSystemSkipped ==
  /\ pc = "_interface_system"
  /\ pc' = "Generate(interface_system)"
  /\ UNCHANGED <<command, args, error, data, emitters, idx, system_name, heap,
                 locals, running, log>>

\* implementation_system._interface_system = interface_system
SetInterfaceSystem ==
  /\ pc = "_interface_system"
  /\ pc' = "Generate(interface_system)"
  /\ generators' = [generators EXCEPT
         ![implementation_system].interface_system = interface_system]
  /\ log' = Append(log, Event("_interface_system", implementation_system))
  /\ UNCHANGED <<command, args, error, data, emitters, idx, system_name, renamers,
                 registries, configs, locals, running>>

\* The three call sites of the local Generate(system): the generator handed
\* over and the statement that follows the call.
CallSites == {"Generate(html_system)", "Generate(interface_system)",
              "Generate(implementation_system)"}

\* Variant: the html call site hands over the wrapped implementation generator.
CallArgumentWrapped(site) ==
  IF site = "Generate(html_system)" THEN backend
  ELSE IF site = "Generate(interface_system)" THEN interface_system
  ELSE implementation_system

CallArgument(site) ==
  IF site = "Generate(html_system)" THEN html_system
  ELSE IF site = "Generate(interface_system)" THEN interface_system
  ELSE implementation_system

CallReturn(site) ==
  IF site = "Generate(interface_system)" THEN "Generate(implementation_system)"
  ELSE "for"

\* def Generate(system): generator.Generate(webkit_database, system,
\*     super_database=common_database, webkit_renames=_webkit_renames)
GenerateCall ==
  /\ pc \in CallSites
  /\ pc' = "generator.Generate"
  /\ running' = Append(running, [sys |-> CallArgument(pc),
                                 database |-> "webkit_database",
                                 super_database |-> "common_database",
                                 ret |-> CallReturn(pc)])
  /\ log' = Append(log, Event("Generate", CallArgument(pc)))
  /\ UNCHANGED <<command, args, error, data, emitters, idx, system_name, heap, locals>>

\* Variant: every generator run flushes the MultiEmitter when it returns.
GenerateReturnFlushing ==
  /\ pc = "generator.Generate"
  /\ pc' = running[Len(running)].ret
  /\ emitters' = [emitters EXCEPT
                    !.written = @ \o Append(emitters.pending,
                                            running[Len(running)].sys),
                    !.pending = <<>>,
                    !.flushes = @ + 1]
  /\ running' = SubSeq(running, 1, Len(running) - 1)
  /\ log' = Append(log, Event("return", running[Len(running)].sys))
  /\ UNCHANGED <<command, args, error, data, idx, system_name, heap, locals>>

\* The generator run returns: what it emitted is pending in the MultiEmitter.
GenerateReturn ==
  /\ pc = "generator.Generate"
  /\ pc' = running[Len(running)].ret
  /\ emitters' = [emitters EXCEPT
                    !.pending = Append(@, running[Len(running)].sys)]
  /\ running' = SubSeq(running, 1, Len(running) - 1)
  /\ log' = Append(log, Event("return", running[Len(running)].sys))
  /\ UNCHANGED <<command, args, error, data, idx, system_name, heap, locals>>

\* Variant: the failure of a generator run is caught and the loop goes on.
GenerateRaiseCaught ==
  /\ pc = "generator.Generate"
  /\ pc' = running[Len(running)].ret
  /\ error' = [type |-> "GenerationError", msg |-> <<>>]
  /\ running' = SubSeq(running, 1, Len(running) - 1)
  /\ log' = Append(log, Event("raise", running[Len(running)].sys))
  /\ UNCHANGED <<command, args, data, emitters, idx, system_name, heap, locals>>

\* The generator run fails: nothing in Generate catches the exception.
GenerateRaise ==
  /\ pc = "generator.Generate"
  /\ Raise("GenerationError", <<>>)
  /\ log' = Append(log, Event("raise", running[Len(running)].sys))
  /\ UNCHANGED <<command, args, data, emitters, idx, system_name, heap, locals>>

\* Variant: the flush is left out when no generator has written anything.
FlushIfPending ==
  /\ pc = "Flush"
  /\ pc' = "done"
  /\ emitters' = IF emitters.pending = <<>> THEN emitters
                 ELSE [emitters EXCEPT !.written = @ \o emitters.pending,
                                       !.pending = <<>>,
                                       !.flushes = @ + 1]
  /\ log' = IF emitters.pending = <<>> THEN log
            ELSE Append(log, Event("Flush", 0))
  /\ UNCHANGED <<command, args, error, data, idx, system_name, heap, locals, running>>

\* _logger.info('Flush...'); emitters.Flush(): the buffered output is written.
Flush ==
  /\ pc = "Flush"
  /\ pc' = "done"
  /\ emitters' = [emitters EXCEPT !.written = @ \o emitters.pending,
                                  !.pending = <<>>,
                                  !.flushes = @ + 1]
  /\ log' = Append(log, Event("Flush", 0))
  /\ UNCHANGED <<command, args, error, data, idx, system_name, heap, locals, running>>

Next ==
  \/ LoadAuxiliary
  \/ Load
  \/ FilterMembersWithUnidentifiedTypes
  \/ Clone
  \/ FilterInterfaces
  \/ RenameTypes
  \/ FixEventTargets
  \/ MultiEmitter
  \/ ForNext
  \/ NewHtmlRenamer
  \/ NewHtmlTypeRegistry
  \/ NewHtmlFrogSystem
  \/ NewNativeImplementationSystem
  \/ NewHtmlInterfacesSystem
  \/ NewTypeRegistry
  \/ NewInterfacesSystem
  \/ NewDummyImplementationSystem
  \/ NewFrogSystem
  \/ RaiseUnsupported
  \/ SetInterfaceSystem
  \/ GenerateCall
  \/ GenerateReturn
  \/ GenerateRaise
  \/ Flush

Spec == Init /\ [][Next]_vars

(***************************************************************************)
(* The command surface: main parses the options, splits --systems on ','   *)
(* and calls Generate and then GenerateSingleFile.  The text of --systems  *)
(* is a sequence of tokens, each a ',' or a word without a comma; no two   *)
(* words are adjacent, so every field between two commas is one word or    *)
(* empty.                                                                  *)
(***************************************************************************)

\* Longest --systems text, in tokens.
MaxOptionLen == 3

Words == HtmlSystems \cup PlainSystems \cup {"bogus"}

\* default='frog,dummy,htmlfrog,htmldartium'
DefaultSystems == <<"frog", ",", "dummy", ",", "htmlfrog", ",", "htmldartium">>

OptionTexts ==
  {DefaultSystems} \cup
  {t \in UNION {[1..n -> Words \cup {","}] : n \in 0..MaxOptionLen} :
     \A i \in 1..(Len(t) - 1) : t[i] = "," \/ t[i + 1] = ","}

\* The positions of the commas of a text.
Commas(text) == {i \in 1..Len(text) : text[i] = ","}

\* The position of the n-th comma; 0 before the text, Len + 1 after it.
Separator(text, n) ==
  IF n = 0 THEN 0
  ELSE IF n > Cardinality(Commas(text)) THEN Len(text) + 1
  ELSE CHOOSE i \in Commas(text) :
         Cardinality({j \in Commas(text) : j <= i}) = n

\* The text between two separators.
Field(text, from, to) == IF to = from + 1 THEN "" ELSE text[from + 1]

\* Variant: empty fields are dropped.
SplitNonEmpty(text) ==
  SelectSeq([f \in 1..(Cardinality(Commas(text)) + 1) |->
               Field(text, Separator(text, f - 1), Separator(text, f))],
            LAMBDA field : field # "")

\* options.systems.split(','): one field more than there are commas.
Split(text) ==
  [f \in 1..(Cardinality(Commas(text)) + 1) |->
     Field(text, Separator(text, f - 1), Separator(text, f))]

InitMain ==
  /\ main_pc = "parse_args"
  /\ option_systems \in OptionTexts
  /\ option_cache \in BOOLEAN
  /\ systems = <<>>
  /\ copies = <<>>
  /\ pc = "main"
  /\ system_names = <<>>
  /\ use_database_cache = FALSE
  /\ GenerateEntry

generate == <<pc, error, data, emitters, idx, system_name, heap, locals,
              running, log>>

\* (options, args) = parser.parse_args() ... systems = options.systems.split(',')
MainParse ==
  /\ main_pc = "parse_args"
  /\ main_pc' = "Generate"
  /\ systems' = Split(option_systems)
  /\ UNCHANGED <<option_systems, option_cache, copies, args, generate>>

\* Generate(systems, database_dir, options.use_database_cache, ...)
MainGenerate ==
  /\ main_pc = "Generate"
  /\ main_pc' = "GenerateSingleFile"
  /\ system_names' = systems
  /\ use_database_cache' = option_cache
  /\ pc' = "LoadAuxiliary"
  /\ UNCHANGED <<option_systems, option_cache, systems, copies, error, data,
                 emitters, idx, system_name, heap, locals, running, log>>

\* The copy steps of GenerateSingleFile, in the order of its tests.
CopySteps(list) ==
  SelectSeq(<<"frog", "htmlfrog", "htmldartium", "dummy">>,
            LAMBDA name : name \in {list[i] : i \in 1..Len(list)})

\* Variant: the copy steps are made however Generate has ended.
MainGenerateSingleFileAlways ==
  /\ main_pc = "GenerateSingleFile"
  /\ pc \in {"done", "failed"}
  /\ main_pc' = "done"
  /\ copies' = CopySteps(systems)
  /\ UNCHANGED <<option_systems, option_cache, systems, args, generate>>

\* GenerateSingleFile(systems), once Generate has returned.
MainGenerateSingleFile ==
  /\ main_pc = "GenerateSingleFile"
  /\ pc = "done"
  /\ main_pc' = "done"
  /\ copies' = CopySteps(systems)
  /\ UNCHANGED <<option_systems, option_cache, systems, args, generate>>

NextMain ==
  \/ MainParse
  \/ MainGenerate
  \/ MainGenerateSingleFile
  \/ Next

SpecMain == InitMain /\ [][NextMain]_vars
(***************************************************************************)
(* Properties of Generate.                                                 *)
(***************************************************************************)

\* The identifiers the dispatch of Generate knows.
KnownSystems == HtmlSystems \cup PlainSystems

\* The positions of the log whose call is op.
Calls(op) == {i \in 1..Len(log) : log[i].op = op}

\* The exception raised for the unknown identifier name.
UnsupportedError(name) ==
  [type |-> "Exception", msg |-> UnsupportedMessage(name)]

\* C1: once the loop has met an identifier that is none of 'htmlfrog',
\* 'htmldartium', 'dummy', 'frog', the loop stays at that identifier (it is
\* on the way to the raise statement or has failed), a failed run carries the
\* error that names this identifier, no generator is run for it and the
\* emitter is not flushed.
C1_UnknownIdentifierFails ==
  \A k \in 1..idx :
    system_names[k] \notin KnownSystems =>
      /\ idx = k
      /\ pc \in {"TypeRegistry", "InterfacesSystem", "raise", "failed"}
      /\ pc = "failed" => error = UnsupportedError(system_names[k])
      /\ \A i \in Calls("Generate") \cup Calls("Flush") : log[i].pos < k
      /\ emitters.flushes = 0

C1_Witness ==
  /\ pc = "failed"
  /\ idx = 2
  /\ system_names[1] \in KnownSystems
  /\ error = UnsupportedError("bogus")

\* C2: a list that holds an unknown identifier at any position never reaches
\* the flush: the run does not complete, nothing is written, also not what
\* the valid identifiers before the unknown one have emitted.
C2_NoOutputWithUnknown ==
  (\E k \in 1..Len(system_names) : system_names[k] \notin KnownSystems) =>
    /\ pc \notin {"Flush", "done"}
    /\ emitters.flushes = 0
    /\ emitters.written = <<>>
    /\ Calls("Flush") = {}

C2_Witness ==
  /\ pc = "failed"
  /\ error.type = "Exception"
  /\ system_names[1] \in KnownSystems
  /\ emitters.pending # <<>>
  /\ emitters.written = <<>>

\* C3: the emitter is flushed only by the last call of a completed run: a
\* run that has not completed has not flushed, a completed run has flushed
\* exactly once, after a finished generator run for every requested position.
C3_FlushOnceAtEnd ==
  /\ pc # "done" => emitters.flushes = 0 /\ Calls("Flush") = {}
  /\ pc = "done" =>
       /\ emitters.flushes = 1
       /\ Calls("Flush") = {Len(log)}
       /\ running = <<>>
       /\ emitters.pending = <<>>
       /\ \A k \in 1..Len(system_names) :
            \E i \in Calls("return") : log[i].pos = k
       /\ Cardinality(Calls("Generate")) = Cardinality(Calls("return"))
       /\ Len(emitters.written) = Cardinality(Calls("Generate"))

C3_Witness ==
  /\ pc = "done"
  /\ Len(system_names) = 2
  /\ emitters.flushes = 1
  /\ Len(emitters.written) >= 2
\* The passes over the two Models in the order Generate makes them.
ModelPasses(cache) ==
  <<LoadCall(cache), "FilterMembersWithUnidentifiedTypes", "Clone",
    "FilterInterfaces", "RenameTypes", "FixEventTargets">>

PassNames == {"Load", "LoadFromCache", "FilterMembersWithUnidentifiedTypes",
              "Clone", "FilterInterfaces", "RenameTypes", "FixEventTargets"}

\* The passes the run has called so far, in order.
PassesCalled ==
  LET calls == SelectSeq(log, LAMBDA e : e.op \in PassNames)
  IN  [i \in 1..Len(calls) |-> calls[i].op]

IsPrefix(s, t) == Len(s) <= Len(t) /\ s = SubSeq(t, 1, Len(s))

\* Something of the dispatch has happened: an identifier was taken from the
\* list, an object was built for a backend or a generator was run.
DispatchBegun ==
  \/ idx > 0
  \/ renamers > 0
  \/ registries # <<>>
  \/ configs # <<>>
  \/ generators # <<>>
  \/ Calls("Generate") # {}

\* The statements of Generate before the loop.
PreDispatch == {"LoadAuxiliary", "Load", "FilterMembersWithUnidentifiedTypes",
                "Clone", "FilterInterfaces", "RenameTypes", "FixEventTargets",
                "MultiEmitter"}

\* C4: the passes called are always an initial part of Load (or
\* LoadFromCache), Prune, Clone, Filter, Rename, FixEventTargets, so each is
\* called at most once and in this order; as soon as the run is past the
\* statements before the loop, all six have been called, Load and Prune on the
\* base Model and the other four on the working Model.
C4_PassesOnceInOrder ==
  /\ IsPrefix(PassesCalled, ModelPasses(use_database_cache))
  /\ (DispatchBegun \/ pc \notin PreDispatch \cup {"failed"}) =>
       /\ PassesCalled = ModelPasses(use_database_cache)
       /\ common_database = SubSeq(ModelPasses(use_database_cache), 1, 2)
       /\ webkit_database = ModelPasses(use_database_cache)

C4_Witness ==
  /\ pc = "generator.Generate"
  /\ idx = 1
  /\ PassesCalled = ModelPasses(use_database_cache)
  /\ use_database_cache

\* The generator classes built, in order, for an identifier.
ClassesOf(name) ==
  IF name = "htmlfrog" THEN <<"HtmlFrogSystem", "HtmlInterfacesSystem">>
  ELSE IF name = "htmldartium"
    THEN <<"NativeImplementationSystem", "HtmlInterfacesSystem">>
  ELSE IF name = "dummy" THEN <<"InterfacesSystem", "DummyImplementationSystem">>
  ELSE IF name = "frog" THEN <<"InterfacesSystem", "FrogSystem">>
  ELSE <<"InterfacesSystem">>

\* The generators built at list position k, in the order of construction.
GeneratorsAt(k) ==
  SelectSeq([g \in 1..Len(generators) |-> g],
            LAMBDA g : generators[g].pos = k)

Range(s) == {s[i] : i \in 1..Len(s)}

\* C5: the loop variable is the identifier at the current position of the
\* caller's list; the generators built and the calls logged follow the list
\* positions in ascending order and belong to the identifier at their
\* position; the runs of the positions before the current one have all
\* returned, and at most one run is in progress.
C5_BackendsInOrderOneAtATime ==
  /\ Len(running) <= 1
  /\ idx > 0 => system_name = system_names[idx]
  /\ \A a, b \in 1..Len(log) : a < b => log[a].pos <= log[b].pos
  /\ \A a, b \in 1..Len(generators) :
       a < b => generators[a].pos <= generators[b].pos
  /\ \A g \in 1..Len(generators) :
       /\ generators[g].pos \in 1..idx
       /\ generators[g].cls \in
            Range(ClassesOf(system_names[generators[g].pos]))
  /\ \A i \in Calls("Generate") :
       /\ generators[log[i].sys].pos = log[i].pos
       /\ log[i].pos < idx => \E j \in Calls("return") :
                                 j > i /\ log[j].sys = log[i].sys
  /\ \A i \in 1..Len(running) : generators[running[i].sys].pos = idx

C5_Witness ==
  /\ pc = "generator.Generate"
  /\ idx = 2
  /\ system_names[1] # system_names[2]
  /\ \E i \in Calls("return") : log[i].pos = 1

\* C6: with an empty list nothing is built and no generator is run; the run
\* can fail only in Load or Rename, and once the passes are through it goes
\* to the flush: a completed run has called Load, Prune, Clone, Filter, Rename
\* and FixEventTargets and has flushed once, without an error.
C6_EmptyListReachesFlush ==
  system_names = <<>> =>
    /\ ~DispatchBegun
    /\ Calls("return") = {}
    /\ pc \in PreDispatch \cup {"for", "Flush", "done", "failed"}
    /\ pc = "failed" => error.type \in {"LoadError", "StrictRenameError"}
    /\ pc \in {"for", "Flush", "done"} =>
         /\ error = NoError
         /\ PassesCalled = ModelPasses(use_database_cache)
    /\ pc = "done" => /\ emitters.flushes = 1
                      /\ Calls("Flush") = {Len(log)}
                      /\ emitters.written = <<>>

C6_Witness ==
  /\ system_names = <<>>
  /\ pc = "done"
  /\ emitters.flushes = 1
  /\ error = NoError

\* C7: after a failed generator run the driver has stopped: the failure is
\* the last thing that happened, no identifier after the failing one was
\* taken from the list, nothing was built or run after it and the emitter
\* was not flushed.
C7_GenerationErrorStops ==
  error.type = "GenerationError" =>
    /\ pc = "failed"
    /\ running = <<>>
    /\ log[Len(log)].op = "raise"
    /\ log[Len(log)].pos = idx
    /\ log[Len(log) - 1] = [op |-> "Generate", pos |-> idx,
                            sys |-> log[Len(log)].sys]
    /\ emitters.flushes = 0
    /\ emitters.written = <<>>
    /\ Calls("Flush") = {}

C7_Witness ==
  /\ error.type = "GenerationError"
  /\ idx < Len(system_names)
  /\ emitters.pending # <<>>

\* C8: after a failure of Load, LoadFromCache or RenameTypes the run has
\* stopped at that pass: it is the last call made, no identifier was taken
\* from the list, no object was built, no generator was run and no
\* MultiEmitter was created or flushed.
C8_PreDispatchFailureAborts ==
  error.type \in {"LoadError", "StrictRenameError"} =>
    /\ pc = "failed"
    /\ ~DispatchBegun
    /\ log[Len(log)].op = IF error.type = "LoadError"
                            THEN LoadCall(use_database_cache)
                            ELSE "RenameTypes"
    /\ ~emitters.exists
    /\ emitters.flushes = 0
    /\ Calls("Flush") = {}
    /\ Calls("MultiEmitter") = {}

C8_Witness ==
  /\ error.type = "StrictRenameError"
  /\ pc = "failed"
  /\ system_names # <<>>
  /\ Len(PassesCalled) = 5
\* The objects of a heap built at list position k.
BuiltAt(objects, k) == {i \in 1..Len(objects) : objects[i].pos = k}

C10_HtmlTwoStageConstruction ==
  /\ \A g \in 1..Len(generators) :
       generators[g].cls = "HtmlInterfacesSystem" =>
         /\ generators[g].backend = g - 1
         /\ g > 1
         /\ generators[g - 1].pos = generators[g].pos
         /\ generators[g - 1].backend = 0
         /\ system_names[generators[g].pos] \in HtmlSystems
         /\ generators[g - 1].cls =
              ClassesOf(system_names[generators[g].pos])[1]
         /\ GeneratorsAt(generators[g].pos) = <<g - 1, g>>
  /\ \A g \in 1..Len(generators) :
       generators[g].cls \in {"HtmlFrogSystem", "NativeImplementationSystem"}
         => generators[g].cls = ClassesOf(system_names[generators[g].pos])[1]
  /\ (idx > 0 /\ system_name \in HtmlSystems
        /\ pc \in {"Generate(html_system)", "generator.Generate"}) =>
       /\ Len(GeneratorsAt(idx)) = 2
       /\ html_system = GeneratorsAt(idx)[2]
       /\ backend = GeneratorsAt(idx)[1]
       /\ generators[html_system].backend = backend
  /\ \A i \in Calls("Generate") :
       system_names[log[i].pos] \in HtmlSystems =>
         generators[log[i].sys].cls = "HtmlInterfacesSystem"

C10_Witness ==
  /\ pc = "generator.Generate"
  /\ system_name = "htmldartium"
  /\ idx = 2
  /\ system_names[1] = "htmlfrog"
  /\ generators[running[1].sys].backend = backend
\* The passes that remove or rewrite members of a Model.
MutatingPasses == {"FilterMembersWithUnidentifiedTypes", "FilterInterfaces",
                   "RenameTypes", "FixEventTargets"}

\* C11 as stated: no pass that removes or rewrites members of a Model is
\* called before Clone.
C11_NoMutatingPassBeforeClone ==
  \A i \in Calls("Clone") : \A j \in 1..(i - 1) : log[j].op \notin MutatingPasses

\* C11, amended: when Clone is called the base Model has been loaded and
\* pruned and no other mutating pass has been called; FilterInterfaces,
\* RenameTypes and FixEventTargets are called only after Clone, and the clone
\* starts from the loaded and pruned base Model.
C11_OnlyPruneBeforeClone ==
  /\ \A i \in Calls("Clone") :
       /\ \A j \in 1..(i - 1) :
            log[j].op \notin MutatingPasses \ {"FilterMembersWithUnidentifiedTypes"}
       /\ \E j \in 1..(i - 1) : log[j].op = "FilterMembersWithUnidentifiedTypes"
       /\ IsPrefix(<<LoadCall(use_database_cache),
                     "FilterMembersWithUnidentifiedTypes", "Clone">>,
                   webkit_database)
  /\ \A j \in Calls("FilterInterfaces") \cup Calls("RenameTypes")
                \cup Calls("FixEventTargets") :
       \E i \in Calls("Clone") : i < j

C11_Witness ==
  /\ pc = "FilterInterfaces"
  /\ Calls("Clone") = {Len(log)}
  /\ common_database = <<"Load", "FilterMembersWithUnidentifiedTypes">>
  /\ webkit_database = <<"Load", "FilterMembersWithUnidentifiedTypes", "Clone">>

\* C12: from Clone on the base Model stays what it was when it was cloned:
\* the working Model is the base Model as cloned followed by the passes called
\* after Clone, none of which is in the base Model; every generator run
\* generates from the working Model and gets the base Model as
\* super_database.
C12_BaseUntouchedAfterClone ==
  /\ webkit_database # <<>> =>
       \E n \in 1..Len(webkit_database) :
         /\ webkit_database[n] = "Clone"
         /\ SubSeq(webkit_database, 1, n - 1) = common_database
         /\ Len(webkit_database) - n =
              Cardinality(Calls("FilterInterfaces") \cup Calls("FixEventTargets")
                          \cup {i \in Calls("RenameTypes") :
                                  error.type # "StrictRenameError"})
  /\ \A i \in 1..Len(common_database) :
       common_database[i] \notin {"Clone", "FilterInterfaces", "RenameTypes",
                                  "FixEventTargets"}
  /\ \A i \in 1..Len(running) :
       /\ running[i].database = "webkit_database"
       /\ running[i].super_database = "common_database"

C12_Witness ==
  /\ pc = "generator.Generate"
  /\ running[1].super_database = "common_database"
  /\ Len(webkit_database) = 6
  /\ Len(common_database) = 2
\* The implementation generators of the plain identifiers.
ImplementationClasses == {"DummyImplementationSystem", "FrogSystem"}

\* The assignments of the back-reference of generator g, as log positions.
BackReferenceSet(g) == {i \in Calls("_interface_system") : log[i].sys = g}

\* C13: the implementation generator of 'dummy' or 'frog' is built right
\* after the InterfacesSystem of the same list position and with the same
\* Type Registry object; its back-reference is assigned at most once, to that
\* InterfacesSystem, before any run of that position starts, and no other
\* generator gets a back-reference.
C13_SharedRegistryAndBackReference ==
  /\ \A g \in 1..Len(generators) :
       generators[g].cls \in ImplementationClasses =>
         /\ g > 1
         /\ generators[g - 1].cls = "InterfacesSystem"
         /\ generators[g - 1].pos = generators[g].pos
         /\ generators[g].options # generators[g - 1].options
         /\ configs[generators[g].options].type_registry =
              configs[generators[g - 1].options].type_registry
         /\ registries[configs[generators[g].options].type_registry].pos =
              generators[g].pos
         /\ Cardinality(BackReferenceSet(g)) <= 1
         /\ generators[g].interface_system =
              IF BackReferenceSet(g) = {} THEN 0 ELSE g - 1
         /\ \A i \in Calls("Generate") :
              log[i].pos = generators[g].pos =>
                \E a \in BackReferenceSet(g) : a < i
  /\ \A g \in 1..Len(generators) :
       generators[g].cls \notin ImplementationClasses =>
         /\ BackReferenceSet(g) = {}
         /\ generators[g].interface_system = 0
  /\ \A k \in 1..Len(system_names) :
       (system_names[k] \in PlainSystems
          /\ \E i \in Calls("Generate") : log[i].pos = k) =>
         \E g \in 1..Len(generators) :
           /\ generators[g].pos = k
           /\ generators[g].cls \in ImplementationClasses

C13_Witness ==
  /\ pc = "done"
  /\ system_names = <<"dummy", "frog">>
  /\ Cardinality(Calls("_interface_system")) = 2
  /\ generators[4].interface_system = 3
\* C14: every Type Registry belongs to one list position and every position
\* the loop has left has exactly one, also when an identifier occurs twice;
\* the GeneratorOptions of a generator hold the Type Registry built at the
\* generator's own position.
C14_RegistryPerPosition ==
  /\ \A k \in 1..Len(system_names) : Cardinality(BuiltAt(registries, k)) <= 1
  /\ \A k \in 1..(idx - 1) : Cardinality(BuiltAt(registries, k)) = 1
  /\ \A r \in 1..Len(registries) : registries[r].pos \in 1..idx
  /\ \A c \in 1..Len(configs) :
       /\ configs[c].type_registry \in 1..Len(registries)
       /\ registries[configs[c].type_registry].pos = configs[c].pos
  /\ \A g \in 1..Len(generators) :
       registries[configs[generators[g].options].type_registry].pos =
         generators[g].pos

C14_Witness ==
  /\ pc = "generator.Generate"
  /\ system_names = <<"frog", "frog">>
  /\ idx = 2
  /\ Len(registries) = 2
  /\ configs[generators[running[1].sys].options].type_registry = 2

\* The template paths and conditions each generator class is built with.
TemplatePathsOf(cls) ==
  IF cls = "HtmlFrogSystem" THEN <<"html/frog", "html/impl", "html", "">>
  ELSE IF cls = "NativeImplementationSystem"
    THEN <<"dom/native", "html/dartium", "html/impl", "">>
  ELSE IF cls = "HtmlInterfacesSystem"
    THEN <<"html/interface", "html/impl", "html", "">>
  ELSE IF cls = "InterfacesSystem" THEN <<"dom/interface", "dom", "">>
  ELSE IF cls = "DummyImplementationSystem" THEN <<"dom/dummy", "dom", "">>
  ELSE <<"dom/frog", "dom", "">>

ConditionsOf(cls) ==
  IF cls = "HtmlFrogSystem" THEN {<<"DARTIUM", FALSE>>, <<"FROG", TRUE>>}
  ELSE IF cls = "NativeImplementationSystem"
    THEN {<<"DARTIUM", TRUE>>, <<"FROG", FALSE>>}
  ELSE {}

\* C15: every generator has GeneratorOptions of its own, made by the
\* CreateGeneratorOptions call that precedes its construction: no two
\* generators hold the same options object, every options object belongs to
\* one generator of the same list position, and it carries the template paths
\* and conditions written at that call, whatever was composed before.
C15_FreshOptionsPerGenerator ==
  /\ \A g, h \in 1..Len(generators) :
       g # h => generators[g].options # generators[h].options
  /\ Len(configs) = Len(generators)
  /\ \A g \in 1..Len(generators) :
       /\ generators[g].options \in 1..Len(configs)
       /\ configs[generators[g].options].pos = generators[g].pos
       /\ configs[generators[g].options].template_loader =
            [template_paths |-> TemplatePathsOf(generators[g].cls),
             conditions |-> ConditionsOf(generators[g].cls)]

C15_Witness ==
  /\ pc = "done"
  /\ system_names = <<"dummy", "htmlfrog">>
  /\ Len(configs) = 4
  /\ generators[2].options = 2

\* C16: the MultiEmitter is created once, before any GeneratorOptions; all
\* GeneratorOptions and Type Registries of the run are bound to the working
\* Model and all GeneratorOptions to that MultiEmitter; the flush of a
\* completed run is the flush of that MultiEmitter and follows its creation.
C16_OneWriterForAllOptions ==
  /\ Cardinality(Calls("MultiEmitter")) <= 1
  /\ emitters.exists <=> Calls("MultiEmitter") # {}
  /\ (configs # <<>> \/ registries # <<>>) => emitters.exists
  /\ \A c \in 1..Len(configs) :
       /\ configs[c].emitters = "emitters"
       /\ configs[c].database = "webkit_database"
  /\ \A r \in 1..Len(registries) : registries[r].database = "webkit_database"
  /\ \A f \in Calls("Flush") : \E m \in Calls("MultiEmitter") : m < f
  /\ pc = "done" => emitters.exists /\ emitters.flushes = 1

C16_Witness ==
  /\ pc = "done"
  /\ Len(configs) = 4
  /\ emitters.flushes = 1
  /\ Len(emitters.written) = 3
\* C17: GenerateSingleFile makes its copy steps only after Generate has
\* returned from its flush without an error; when Generate has failed, main
\* has not gone on to GenerateSingleFile and no copy step was made.
C17_CopyOnlyAfterGenerateReturns ==
  /\ (copies # <<>> \/ main_pc = "done") =>
       /\ pc = "done"
       /\ error = NoError
       /\ emitters.flushes = 1
       /\ Calls("Flush") = {Len(log)}
  /\ pc = "failed" => copies = <<>> /\ main_pc = "GenerateSingleFile"
  /\ main_pc \in {"parse_args", "Generate"} => pc = "main" /\ copies = <<>>
  /\ Range(copies) \subseteq Range(systems)

C17_Witness ==
  /\ main_pc = "done"
  /\ Len(copies) = 2
  /\ pc = "done"

\* The generator classes the driver runs, in order, for an identifier.
ExpectedRuns(name) ==
  IF name \in HtmlSystems THEN <<"HtmlInterfacesSystem">>
  ELSE IF name = "dummy"
    THEN <<"InterfacesSystem", "DummyImplementationSystem">>
  ELSE IF name = "frog" THEN <<"InterfacesSystem", "FrogSystem">>
  ELSE <<>>

\* The classes of the generators run at list position k, in order.
RunsAt(k) ==
  LET calls == SelectSeq(log, LAMBDA e : e.op = "Generate" /\ e.pos = k)
  IN  [i \in 1..Len(calls) |-> generators[calls[i].sys].cls]

\* C18: the runs started for a list position are an initial part of the runs
\* fixed for its identifier (InterfacesSystem then the implementation
\* generator for 'dummy' and 'frog', the HtmlInterfacesSystem alone for
\* 'htmlfrog' and 'htmldartium') and are all of them once the loop has left
\* the position; no generator is run twice and a wrapped implementation
\* generator is never run by the driver.
C18_RunsPerIdentifier ==
  /\ \A k \in 1..Len(system_names) :
       /\ IsPrefix(RunsAt(k), ExpectedRuns(system_names[k]))
       /\ (k < idx \/ (k = idx /\ pc \in {"for", "Flush", "done"})) =>
            RunsAt(k) = ExpectedRuns(system_names[k])
  /\ \A i, j \in Calls("Generate") : i # j => log[i].sys # log[j].sys
  /\ \A i \in Calls("Generate") :
       generators[log[i].sys].cls \notin
         {"HtmlFrogSystem", "NativeImplementationSystem"}

C18_Witness ==
  /\ pc = "done"
  /\ system_names = <<"frog", "htmldartium">>
  /\ Cardinality(Calls("Generate")) = 3
  /\ RunsAt(1) = <<"InterfacesSystem", "FrogSystem">>

\* C19: when the unsupported-identifier error is raised, the passes before
\* the loop have all been made and every position before the offending one
\* holds a known identifier whose generators have been built and whose runs
\* have all returned, their output pending in the MultiEmitter and not
\* written.
C19_LazyValidation ==
  error.type = "Exception" =>
    /\ idx >= 1
    /\ system_names[idx] \notin KnownSystems
    /\ PassesCalled = ModelPasses(use_database_cache)
    /\ \A j \in 1..(idx - 1) :
         /\ system_names[j] \in KnownSystems
         /\ Len(GeneratorsAt(j)) = 2
         /\ RunsAt(j) = ExpectedRuns(system_names[j])
    /\ Cardinality(Calls("return")) = Cardinality(Calls("Generate"))
    /\ Len(emitters.pending) = Cardinality(Calls("Generate"))
    /\ emitters.written = <<>>

C19_Witness ==
  /\ error = UnsupportedError("bogus")
  /\ idx = 2
  /\ system_names[1] = "dummy"
  /\ Len(emitters.pending) = 2
\* C20: the list main hands to Generate has one entry more than --systems
\* has commas, so it is never empty; an empty --systems text gives the list
\* of the one identifier '', and a text that is empty or ends in a comma gives
\* a list ending in '', for which the run never reaches the flush: where it
\* fails at that entry, it fails with the error naming ''.
C20_MainListNeverEmpty ==
  /\ main_pc # "parse_args" =>
       /\ Len(systems) >= 1
       /\ Len(systems) = Cardinality(Commas(option_systems)) + 1
       /\ option_systems = <<>> => systems = <<"">>
  /\ pc # "main" => system_names = systems /\ system_names # <<>>
  /\ (pc # "main" /\ (option_systems = <<>>
                      \/ option_systems[Len(option_systems)] = ",")) =>
       /\ system_names[Len(system_names)] = ""
       /\ pc \notin {"Flush", "done"}
       /\ emitters.flushes = 0
       /\ main_pc # "done"
       /\ copies = <<>>
       /\ (pc = "failed" /\ idx = Len(system_names)) =>
            error = UnsupportedError("")

C20_Witness ==
  /\ option_systems = <<>>
  /\ system_names = <<"">>
  /\ pc = "failed"
  /\ error = UnsupportedError("")
  /\ emitters.flushes = 0
====
